---- MODULE Spec2Model ----
(***************************************************************************)
(* A model of src/2048game.py: the Tile and Board classes and the game     *)
(* loop of the __main__ block.  Drawing, fonts and the colour menu change  *)
(* no state the Board reads and are left out.                              *)
(*                                                                         *)
(* A Board object is a record [width, height, board]; board is the list of *)
(* lists built by Board.__init__, with Python's 0-based indices.  A cell   *)
(* holds None or the value of the Tile it refers to.  Positions and        *)
(* directions are Python tuples, modelled as <<x, y>> (1-based in TLA+, so *)
(* position[0] is p[1] and position[1] is p[2]).                           *)
(***************************************************************************)
EXTENDS Integers, Sequences, FiniteSets, TLC

VARIABLES
    board,           \* the Board the module-level name `board` refers to
    running,         \* main loop flag
    game_won,        \* main loop flag (never set by the code after line 252)
    user_continued,  \* main loop flag: the win screen was dismissed with Q
    pc,              \* position of the program
    budget,          \* moves still explored in this behaviour (bounds the model)
    call             \* the last Board method call: arguments, result, effects

vars == <<board, running, game_won, user_continued, pc, budget, call>>

-----------------------------------------------------------------------------
(* Bounds and program constants *)

\* Board(4, 4) in __main__
BoardWidth == 4
BoardHeight == 4
\* the value check_win looks for
WinValue == 2048
\* input boards hold tiles 2^1 .. 2^MaxExp
MaxExp == 2
\* moves explored from a game in progress
MaxMoves == 2
\* moves explored from a new game (two spawned tiles)
MaxNewGameMoves == 0

None == 0

Max(a, b) == IF a >= b THEN a ELSE b

-----------------------------------------------------------------------------
(* class Tile *)

\* merge that adds the other tile's value whatever it is
merge_sum_any(self_value, other_value) ==
    [ok |-> TRUE, value |-> self_value + other_value]

\* merge without the comparison of line 12
merge_unconditional(self_value, other_value) ==
    [ok |-> TRUE, value |-> self_value * 2]

\* Tile.merge, lines 10-15: the result and the value self holds afterwards
merge(self_value, other_value) ==
    IF self_value = other_value
    THEN [ok |-> TRUE, value |-> self_value * 2]
    ELSE [ok |-> FALSE, value |-> self_value]

-----------------------------------------------------------------------------
(* class Board *)

\* _move_position, lines 19-21
_move_position(position, direction) ==
    <<position[1] + direction[1], position[2] + direction[2]>>

\* Board.__init__, lines 30-33: `height` lists of `width` None each
Board(width, height) ==
    [width |-> width, height |-> height,
     board |-> [j \in 0..(height - 1) |-> [i \in 0..(width - 1) |-> None]]]

\* Board._is_valid, lines 37-39
_is_valid(self, position) ==
    /\ 0 <= position[1] /\ position[1] < self.width
    /\ 0 <= position[2] /\ position[2] < self.height

\* Board._get, lines 55-57: self.board[position[0]][position[1]]
_get(self, position) == self.board[position[1]][position[2]]

\* Board._set, lines 59-61
_set(self, position, tile) ==
    [self EXCEPT !.board[position[1]][position[2]] = tile]

\* _find_starts with the starts on the edge the tiles move away from
_find_starts_far_edge(self, direction) ==
    LET side == <<Max(0, (0 - direction[1]) * (self.width - 1)),
                  Max(0, (0 - direction[2]) * (self.height - 1))>>
    IN  IF direction[1] = 0
        THEN [k \in 1..self.width |-> <<k - 1, side[2]>>]
        ELSE IF direction[2] = 0
             THEN [k \in 1..self.height |-> <<side[1], k - 1>>]
             ELSE <<>>

\* Board._find_starts, lines 41-53: the list of start positions
_find_starts(self, direction) ==
    LET side == <<Max(0, direction[1] * (self.width - 1)),
                  Max(0, direction[2] * (self.height - 1))>>
    IN  IF direction[1] = 0
        THEN [k \in 1..self.width |-> <<k - 1, side[2]>>]
        ELSE IF direction[2] = 0
             THEN [k \in 1..self.height |-> <<side[1], k - 1>>]
             ELSE <<>>

\* the while loop of Board._compact, lines 74-79
RECURSIVE Slide(_, _, _, _)
Slide(self, curr_pos, direction, something_changed) ==
    LET next_pos == _move_position(curr_pos, direction)
    IN  IF _is_valid(self, next_pos) /\ _get(self, next_pos) = None
        THEN Slide(_set(_set(self, next_pos, _get(self, curr_pos)), curr_pos, None),
                   next_pos, direction, TRUE)
        ELSE [self |-> self, something_changed |-> something_changed]

\* the three nested for loops of Board._compact, lines 65-79, flattened:
\* step n visits cell (x, y) of pass i, y fastest, then x, then i
RECURSIVE CompactFrom(_, _, _, _)
CompactFrom(self, direction, n, something_changed) ==
    IF n >= Max(self.width, self.height) * self.width * self.height
    THEN [self |-> self, something_changed |-> something_changed]
    ELSE LET x == (n \div self.height) % self.width
             y == n % self.height
         IN  IF self.board[x][y] = None
             THEN CompactFrom(self, direction, n + 1, something_changed)
             ELSE LET r == Slide(self, <<x, y>>, direction, something_changed)
                  IN  CompactFrom(r.self, direction, n + 1, r.something_changed)

\* _compact with a single pass over the grid instead of max(width, height)
_compact_one_pass(self, direction) ==
    CompactFrom(self, direction,
                (Max(self.width, self.height) - 1) * self.width * self.height, FALSE)

\* Board._compact, lines 63-81
_compact(self, direction) == CompactFrom(self, direction, 0, FALSE)

\* the while loop of Board.move, lines 114-131, for one start.  merges counts
\* the merge() calls that returned True.  With inverse = (0, 0) next_pos never
\* leaves the board and the loop does not end: hung.
RECURSIVE Walk(_, _, _, _)
Walk(self, curr_pos, inverse, merges) ==
    LET next_pos == _move_position(curr_pos, inverse)
    IN  IF ~ _is_valid(self, next_pos)
        THEN [self |-> self, merges |-> merges, hung |-> FALSE]
        ELSE LET first_tile == _get(self, curr_pos)
                 second_tile == _get(self, next_pos)
             IN  IF first_tile = None \/ second_tile = None
                 THEN IF next_pos = curr_pos
                      THEN [self |-> self, merges |-> merges, hung |-> TRUE]
                      ELSE Walk(self, next_pos, inverse, merges)
                 ELSE LET m == merge(first_tile, second_tile)
                          merged == IF m.ok
                                    THEN _set(_set(self, curr_pos, m.value), next_pos, None)
                                    ELSE self
                          count == IF m.ok THEN merges + 1 ELSE merges
                      IN  Walk(merged, next_pos, inverse, count)

\* the for loop of Board.move over the starts, lines 109-131
RECURSIVE MergeFrom(_, _, _, _, _)
MergeFrom(self, starts, k, inverse, merges) ==
    IF k > Len(starts)
    THEN [self |-> self, merges |-> merges, hung |-> FALSE]
    ELSE LET w == Walk(self, starts[k], inverse, merges)
         IN  IF w.hung THEN w
             ELSE MergeFrom(w.self, starts, k + 1, inverse, w.merges)

\* a merge pass that compacts and walks the lines a second time
MergePass_twice(self, direction) ==
    LET inverse == <<0 - direction[1], 0 - direction[2]>>
        starts == _find_starts(self, direction)
        once == MergeFrom(self, starts, 1, inverse, 0)
    IN  IF once.hung THEN once
        ELSE MergeFrom(_compact(once.self, direction).self, starts, 1, inverse, once.merges)

\* Board.move, lines 106-131: the merge pass
MergePass(self, direction) ==
    LET inverse == <<0 - direction[1], 0 - direction[2]>>
        starts == _find_starts(self, direction)
    IN  MergeFrom(self, starts, 1, inverse, 0)

\* options without the test of line 88
options_any_cell(self) ==
    (0..(self.width - 1)) \X (0..(self.height - 1))

\* Board.spawn, lines 85-89: the empty cells
options(self) ==
    {p \in (0..(self.width - 1)) \X (0..(self.height - 1)) : self.board[p[1]][p[2]] = None}

\* Board.spawn, lines 83-98: every outcome of the random choices.  The method
\* returns False from line 91 and falls off its end (None) after placing a tile.
spawn(self) ==
    IF options(self) = {}
    THEN {[self |-> self, ret |-> "False"]}
    ELSE {[self |-> _set(self, p, v), ret |-> "None"] : p \in options(self), v \in {2, 4}}

\* move without the test of line 135
something_changed_always(compact1, merged, compact2) == TRUE

\* move without line 128
something_changed_no_merge(compact1, merged, compact2) ==
    compact2 \/ compact1

\* Board.move, lines 104, 128, 133: the value of something_changed at line 135
something_changed(compact1, merged, compact2) ==
    compact2 \/ (compact1 \/ merged)

\* Board.move, lines 100-136: every outcome.  mid is the grid before the spawn.
move(self, direction) ==
    LET c1 == _compact(self, direction)
        m == MergePass(c1.self, direction)
        c2 == _compact(m.self, direction)
        changed == something_changed(c1.something_changed, m.merges > 0,
                                     c2.something_changed)
        slid == c1.something_changed \/ c2.something_changed
    IN  IF m.hung
        THEN {[self |-> m.self, mid |-> m.self.board, returned |-> FALSE, slid |-> c1.something_changed,
               merges |-> m.merges, changed |-> c1.something_changed \/ m.merges > 0]}
        ELSE IF changed
             THEN {[self |-> s.self, mid |-> c2.self.board, returned |-> TRUE, slid |-> slid,
                    merges |-> m.merges, changed |-> changed] : s \in spawn(c2.self)}
             ELSE {[self |-> c2.self, mid |-> c2.self.board, returned |-> TRUE, slid |-> slid,
                    merges |-> m.merges, changed |-> changed]}

\* check_game_over looking only up and down
check_game_over_vertical(self, global_board) ==
    \A x \in 0..(global_board.width - 1) : \A y \in 0..(global_board.height - 1) :
        LET tile == _get(global_board, <<x, y>>)
        IN  /\ tile # None
            /\ \A direction \in {<<0, 1>>, <<0, -1>>} :
                  LET next_pos == _move_position(<<x, y>>, direction)
                  IN  _is_valid(global_board, next_pos) =>
                          LET next_tile == _get(global_board, next_pos)
                          IN  ~ (next_tile = None \/ tile = next_tile)

\* Board.check_game_over, lines 161-177.  The body reads the module-level name
\* `board`, not self.
check_game_over(self, global_board) ==
    \A x \in 0..(global_board.width - 1) : \A y \in 0..(global_board.height - 1) :
        LET tile == _get(global_board, <<x, y>>)
        IN  /\ tile # None
            /\ \A direction \in {<<0, 1>>, <<1, 0>>, <<0, -1>>, <<-1, 0>>} :
                  LET next_pos == _move_position(<<x, y>>, direction)
                  IN  _is_valid(global_board, next_pos) =>
                          LET next_tile == _get(global_board, next_pos)
                          IN  ~ (next_tile = None \/ tile = next_tile)

\* check_win with >= for the == of line 182
check_win_at_least(self) ==
    \E j \in DOMAIN self.board : \E i \in DOMAIN self.board[j] :
        self.board[j][i] # None /\ self.board[j][i] >= WinValue

\* Board.check_win, lines 179-184
check_win(self) ==
    \E j \in DOMAIN self.board : \E i \in DOMAIN self.board[j] :
        self.board[j][i] # None /\ self.board[j][i] = WinValue

-----------------------------------------------------------------------------
(* Calls of the Board methods.  call records the last call: the method, its
   direction argument, the grid before it (pre), the grid move had built
   before its spawn (mid), the value returned, whether the call returned,
   and move's slides, merge count and something_changed flag. *)

\* up, down, left, right: the tuples of lines 262-268
UnitDirections == {<<0, -1>>, <<0, 1>>, <<-1, 0>>, <<1, 0>>}

\* directions no key produces: the zero vector, a diagonal, a magnitude-2 vector
OtherDirections == {<<0, 0>>, <<1, 1>>, <<2, 0>>}

NoCall ==
    [op |-> "none", direction |-> <<0, 0>>, pre |-> board.board, mid |-> board.board,
     ret |-> "None", returned |-> TRUE, slid |-> FALSE, merges |-> 0, changed |-> FALSE]

\* board.move(direction)
DoMove(direction) ==
    \E r \in move(board, direction) :
        /\ board' = r.self
        /\ call' = [op |-> "move", direction |-> direction, pre |-> board.board,
                    mid |-> r.mid, ret |-> "None", returned |-> r.returned,
                    slid |-> r.slid, merges |-> r.merges, changed |-> r.changed]

\* board.spawn()
DoSpawn ==
    \E r \in spawn(board) :
        /\ board' = r.self
        /\ call' = [op |-> "spawn", direction |-> <<0, 0>>, pre |-> board.board,
                    mid |-> board.board, ret |-> r.ret, returned |-> TRUE,
                    slid |-> FALSE, merges |-> 0, changed |-> FALSE]

\* a query that tries a move on the board itself to see whether one is left
DoQuery_by_moving(op, result) ==
    /\ \E r \in move(board, <<-1, 0>>) : board' = r.self
    /\ call' = [op |-> op, direction |-> <<0, 0>>, pre |-> board.board,
                mid |-> board.board, ret |-> IF result THEN "True" ELSE "False",
                returned |-> TRUE, slid |-> FALSE, merges |-> 0, changed |-> FALSE]

\* a query: board.check_game_over() or board.check_win()
DoQuery(op, result) ==
    /\ board' = board
    /\ call' = [op |-> op, direction |-> <<0, 0>>, pre |-> board.board,
                mid |-> board.board, ret |-> IF result THEN "True" ELSE "False",
                returned |-> TRUE, slid |-> FALSE, merges |-> 0, changed |-> FALSE]

-----------------------------------------------------------------------------
(* SpecBoard: one method call on an input board.  The input boards are the
   empty 4x4 grid with one row replaced, and the full 2/4 checkerboard with
   one row or one column replaced, by every line of cells over None, 2, ..,
   2^MaxExp: sparse boards where tiles slide, and crowded boards where a
   merge frees the only cells. *)

CellValues == {None} \cup {2 ^ e : e \in 1..MaxExp}

EmptyBoard == Board(BoardWidth, BoardHeight)

CheckerBoard ==
    [EmptyBoard EXCEPT !.board =
        [x \in 0..(BoardWidth - 1) |->
            [y \in 0..(BoardHeight - 1) |-> IF (x + y) % 2 = 0 THEN 2 ELSE 4]]]

WithRow(b, r, line) ==
    [b EXCEPT !.board =
        [x \in 0..(b.width - 1) |->
            [y \in 0..(b.height - 1) |-> IF y = r THEN line[x] ELSE b.board[x][y]]]]

WithColumn(b, c, line) ==
    [b EXCEPT !.board =
        [x \in 0..(b.width - 1) |->
            [y \in 0..(b.height - 1) |-> IF x = c THEN line[y] ELSE b.board[x][y]]]]

InputBoards ==
    {WithRow(EmptyBoard, k, line) :
        k \in 0..(BoardHeight - 1), line \in [0..(BoardWidth - 1) -> CellValues]}
    \cup {WithRow(CheckerBoard, k, line) :
        k \in 0..(BoardHeight - 1), line \in [0..(BoardWidth - 1) -> CellValues]}
    \cup {WithColumn(CheckerBoard, k, line) :
        k \in 0..(BoardWidth - 1), line \in [0..(BoardHeight - 1) -> CellValues]}

InitBoard ==
    /\ board \in InputBoards
    /\ running = TRUE
    /\ game_won = FALSE
    /\ user_continued = FALSE
    /\ pc = "call"
    /\ budget = 0
    /\ call = NoCall

CallMove(direction) ==
    /\ pc = "call"
    /\ DoMove(direction)
    /\ pc' = IF call'.returned THEN "returned" ELSE "hung"
    /\ UNCHANGED <<running, game_won, user_continued, budget>>

CallSpawn ==
    /\ pc = "call"
    /\ DoSpawn
    /\ pc' = "returned"
    /\ UNCHANGED <<running, game_won, user_continued, budget>>

CallCheckGameOver ==
    /\ pc = "call"
    /\ DoQuery("check_game_over", check_game_over(board, board))
    /\ pc' = "returned"
    /\ UNCHANGED <<running, game_won, user_continued, budget>>

CallCheckWin ==
    /\ pc = "call"
    /\ DoQuery("check_win", check_win(board))
    /\ pc' = "returned"
    /\ UNCHANGED <<running, game_won, user_continued, budget>>

Queries == {"check_game_over", "check_win"}

\* after a query has returned: either query, called again with no move or
\* spawn in between
CallQueryAgain ==
    /\ pc \in {"returned", "queried_again"}
    /\ call.op \in Queries
    /\ \/ DoQuery("check_game_over", check_game_over(board, board))
       \/ DoQuery("check_win", check_win(board))
    /\ pc' = "queried_again"
    /\ UNCHANGED <<running, game_won, user_continued, budget>>

\* Board instances other than the one the name `board` refers to
OtherBoards == {EmptyBoard, CheckerBoard}

\* other.check_game_over() for a Board `other` that is not the module-level
\* `board`: self is `other`, and the body reads `board`.  call.pre is the
\* grid of self, call.mid the grid of `board`.
CallCheckGameOverOn(other) ==
    /\ pc = "call"
    /\ other # board
    /\ board' = board
    /\ call' = [op |-> "other.check_game_over", direction |-> <<0, 0>>,
                pre |-> other.board, mid |-> board.board,
                ret |-> IF check_game_over(other, board) THEN "True" ELSE "False",
                returned |-> TRUE, slid |-> FALSE, merges |-> 0, changed |-> FALSE]
    /\ pc' = "returned"
    /\ UNCHANGED <<running, game_won, user_continued, budget>>

NextBoard ==
    \/ \E direction \in UnitDirections \cup OtherDirections : CallMove(direction)
    \/ CallSpawn
    \/ CallCheckGameOver
    \/ CallCheckWin
    \/ CallQueryAgain
    \/ \E other \in OtherBoards : CallCheckGameOverOn(other)

SpecBoard == InitBoard /\ [][NextBoard]_vars

-----------------------------------------------------------------------------
(* Spec: the program.  A behaviour starts at line 233, with the empty board
   of line 232, or at the event loop of a game in progress.  The positions
   in progress are full boards late in a game, where few cells are free for
   a spawn. *)

\* a Board from its rows as drawn on the screen: rows[y + 1][x + 1] is cell (x, y)
FromRows(rows) ==
    [width |-> Len(rows[1]), height |-> Len(rows),
     board |-> [x \in 0..(Len(rows[1]) - 1) |->
                   [y \in 0..(Len(rows) - 1) |-> rows[y + 1][x + 1]]]]

\* four 1024 tiles: one move from a win, two from a 4096
LateBoard ==
    FromRows(<< <<1024, 1024, 8, 2>>,
                <<1024, 1024, 4, 16>>,
                <<2, 8, 16, 4>>,
                <<4, 2, 8, 2>> >>)

\* a full board with a single pair left to merge
LastPairBoard ==
    FromRows(<< <<2, 4, 2, 4>>,
                <<4, 2, 4, 2>>,
                <<2, 4, 2, 4>>,
                <<4, 2, 4, 4>> >>)

GameBoards == {LateBoard, LastPairBoard}

Init ==
    /\ \/ board = Board(BoardWidth, BoardHeight) /\ pc = "spawn1" /\ budget = MaxNewGameMoves
       \/ board \in GameBoards /\ pc = "events" /\ budget = MaxMoves
    /\ running = TRUE
    /\ game_won = FALSE
    /\ user_continued = FALSE
    /\ call = NoCall

\* lines 233-234: board.spawn() twice
InitialSpawn ==
    /\ pc \in {"spawn1", "spawn2"}
    /\ DoSpawn
    /\ pc' = IF pc = "spawn1" THEN "spawn2" ELSE "events"
    /\ UNCHANGED <<running, game_won, user_continued, budget>>

\* lines 260-268: an arrow key
KeyDown(direction) ==
    /\ pc = "events"
    /\ budget > 0
    /\ DoMove(direction)
    /\ budget' = budget - 1
    /\ UNCHANGED <<running, game_won, user_continued, pc>>

\* lines 257-258: pygame.QUIT
Quit ==
    /\ pc = "events"
    /\ running
    /\ running' = FALSE
    /\ UNCHANGED <<board, game_won, user_continued, pc, budget, call>>

\* lines 256, 270-272: the event queue is empty; the board is drawn
EndEvents ==
    /\ pc = "events"
    /\ pc' = "win_check"
    /\ UNCHANGED <<board, running, game_won, user_continued, budget, call>>

\* line 275 without `and not user_continued`
WinCheck_ignoring_continue ==
    /\ pc = "win_check"
    /\ DoQuery("check_win", check_win(board))
    /\ pc' = IF check_win(board) /\ ~ game_won
             THEN "win_screen" ELSE "over_check"
    /\ UNCHANGED <<running, game_won, user_continued, budget>>

\* line 275
WinCheck ==
    /\ pc = "win_check"
    /\ DoQuery("check_win", check_win(board))
    /\ pc' = IF check_win(board) /\ ~ game_won /\ ~ user_continued
             THEN "win_screen" ELSE "over_check"
    /\ UNCHANGED <<running, game_won, user_continued, budget>>

\* lines 280-282: E on the win screen
WinKeyE ==
    /\ pc = "win_screen"
    /\ running' = FALSE
    /\ pc' = "over_check"
    /\ UNCHANGED <<board, game_won, user_continued, budget, call>>

\* lines 283-285: Q on the win screen
WinKeyQ ==
    /\ pc = "win_screen"
    /\ user_continued' = TRUE
    /\ pc' = "over_check"
    /\ UNCHANGED <<board, running, game_won, budget, call>>

\* W on the win screen with a single spawn
WinKeyW_one_spawn ==
    /\ pc = "win_screen"
    /\ \E first \in spawn(Board(BoardWidth, BoardHeight)) :
            /\ board' = first.self
            /\ call' = [op |-> "spawn", direction |-> <<0, 0>>,
                        pre |-> Board(BoardWidth, BoardHeight).board,
                        mid |-> Board(BoardWidth, BoardHeight).board,
                        ret |-> first.ret, returned |-> TRUE,
                        slid |-> FALSE, merges |-> 0, changed |-> FALSE]
    /\ pc' = "over_check"
    /\ budget' = MaxNewGameMoves
    /\ UNCHANGED <<running, game_won, user_continued>>

\* lines 286-294: W on the win screen: a new Board and two spawns
WinKeyW ==
    /\ pc = "win_screen"
    /\ \E first \in spawn(Board(BoardWidth, BoardHeight)) :
         \E second \in spawn(first.self) :
            /\ board' = second.self
            /\ call' = [op |-> "spawn", direction |-> <<0, 0>>, pre |-> first.self.board,
                        mid |-> first.self.board, ret |-> second.ret, returned |-> TRUE,
                        slid |-> FALSE, merges |-> 0, changed |-> FALSE]
    /\ pc' = "over_check"
    /\ budget' = MaxNewGameMoves
    /\ UNCHANGED <<running, game_won, user_continued>>

\* the game over check without line 302
OverCheck_keeps_running ==
    /\ pc = "over_check"
    /\ DoQuery("check_game_over", check_game_over(board, board))
    /\ running' = running
    /\ pc' = IF running' THEN "events" ELSE "done"
    /\ UNCHANGED <<game_won, user_continued, budget>>

\* lines 298-302 and the loop test of line 255
OverCheck ==
    /\ pc = "over_check"
    /\ DoQuery("check_game_over", check_game_over(board, board))
    /\ running' = IF check_game_over(board, board) THEN FALSE ELSE running
    /\ pc' = IF running' THEN "events" ELSE "done"
    /\ UNCHANGED <<game_won, user_continued, budget>>

Next ==
    \/ InitialSpawn
    \/ \E direction \in UnitDirections : KeyDown(direction)
    \/ Quit
    \/ EndEvents
    \/ WinCheck
    \/ WinKeyE
    \/ WinKeyQ
    \/ WinKeyW
    \/ OverCheck

Spec == Init /\ [][Next]_vars

-----------------------------------------------------------------------------
(* SpecDims: Board(width, height) for every pair of dimensions from -1 to
   MaxDim, then up to MaxCalls calls of spawn and move on the new object.
   Python raises IndexError when a list is indexed at or past its length;
   the call then ends without a result. *)

MaxDim == 3
MaxCalls == 2

\* self.board[position[0]][position[1]] exists: lines 57, 61, 69, 88
Addressable(self, position) ==
    /\ position[1] \in DOMAIN self.board
    /\ position[2] \in DOMAIN self.board[position[1]]

\* the loops `for x in range(self.width): for y in range(self.height)` of
\* spawn (lines 86-88) and _compact (lines 66-69) read self.board[x][y] for
\* every x and y before anything is written: they raise IndexError when one
\* of these cells does not exist
ScanRaisesIndexError(self) ==
    \E x \in 0..(self.width - 1) : \E y \in 0..(self.height - 1) :
        ~ Addressable(self, <<x, y>>)

\* the name `board` before the constructor has run
Unbound == [width |-> 0, height |-> 0, board |-> <<>>]

RaisedCall(op, direction) ==
    [op |-> op, direction |-> direction, pre |-> board.board, mid |-> board.board,
     ret |-> "IndexError", returned |-> FALSE, slid |-> FALSE, merges |-> 0,
     changed |-> FALSE]

InitDims ==
    /\ board = Unbound
    /\ running = TRUE
    /\ game_won = FALSE
    /\ user_continued = FALSE
    /\ pc = "new"
    /\ budget = MaxCalls
    /\ call = NoCall

\* board = Board(width, height), lines 30-33: no argument is refused
Construct(width, height) ==
    /\ pc = "new"
    /\ board' = Board(width, height)
    /\ pc' = "call"
    /\ UNCHANGED <<running, game_won, user_continued, budget, call>>

\* board.spawn() on the constructed board
DimSpawn ==
    /\ pc = "call"
    /\ budget > 0
    /\ IF ScanRaisesIndexError(board)
       THEN board' = board /\ call' = RaisedCall("spawn", <<0, 0>>) /\ pc' = "IndexError"
       ELSE DoSpawn /\ pc' = "call"
    /\ budget' = budget - 1
    /\ UNCHANGED <<running, game_won, user_continued>>

\* board.move(direction) on the constructed board
DimMove(direction) ==
    /\ pc = "call"
    /\ budget > 0
    /\ IF ScanRaisesIndexError(board)
       THEN board' = board /\ call' = RaisedCall("move", direction) /\ pc' = "IndexError"
       ELSE DoMove(direction) /\ pc' = "call"
    /\ budget' = budget - 1
    /\ UNCHANGED <<running, game_won, user_continued>>

NextDims ==
    \/ \E width \in (-1)..MaxDim : \E height \in (-1)..MaxDim : Construct(width, height)
    \/ DimSpawn
    \/ \E direction \in UnitDirections : DimMove(direction)

SpecDims == InitDims /\ [][NextDims]_vars

-----------------------------------------------------------------------------
(* Vocabulary of the properties: grids read cell by cell and line by line,
   stated without the Board methods. *)

Cells == (0..(BoardWidth - 1)) \X (0..(BoardHeight - 1))

At(grid, p) == grid[p[1]][p[2]]

OnBoard(p) == p \in Cells

Occupied(grid) == {p \in Cells : At(grid, p) # None}

TileCount(grid) == Cardinality(Occupied(grid))

\* the sum of the values of cells n, n + 1, .. in column-by-column order
RECURSIVE SumFrom(_, _)
SumFrom(grid, n) ==
    IF n >= BoardWidth * BoardHeight THEN 0
    ELSE grid[n \div BoardHeight][n % BoardHeight] + SumFrom(grid, n + 1)

TileSum(grid) == SumFrom(grid, 0)

\* the cells where two grids differ
Differ(before, after) == {p \in Cells : At(before, p) # At(after, p)}

\* after is before with one tile of value 2 or 4 put on a cell that was empty
OneTileAdded(before, after) ==
    LET changed == Differ(before, after)
    IN  /\ Cardinality(changed) = 1
        /\ \A p \in changed : At(before, p) = None /\ At(after, p) \in {2, 4}

Toward(p, direction) == <<p[1] + direction[1], p[2] + direction[2]>>

\* some tile has an empty cell next to it in the direction
CanSlide(grid, direction) ==
    \E p \in Occupied(grid) :
        OnBoard(Toward(p, direction)) /\ At(grid, Toward(p, direction)) = None

\* some tile has an equal tile next to it in the direction
HasEqualPair(grid, direction) ==
    \E p \in Occupied(grid) :
        OnBoard(Toward(p, direction)) /\ At(grid, Toward(p, direction)) = At(grid, p)

\* line k of the grid along a unit direction, read from the edge the tiles
\* move toward: rows for left and right, columns for up and down
LineOf(grid, direction, k) ==
    [i \in 1..BoardWidth |->
        IF direction = <<-1, 0>> THEN grid[i - 1][k]
        ELSE IF direction = <<1, 0>> THEN grid[BoardWidth - i][k]
        ELSE IF direction = <<0, -1>> THEN grid[k][i - 1]
        ELSE grid[k][BoardHeight - i]]

IsTile(v) == v # None

TilesOf(line) == SelectSeq(line, IsTile)

\* tiles followed by empty cells, n cells in all
Packed(tiles, n) == [i \in 1..n |-> IF i <= Len(tiles) THEN tiles[i] ELSE None]

\* the 2048 collapse of a line's tiles: equal neighbours merge greedily from
\* the front, each tile at most once
RECURSIVE Collapse(_)
Collapse(tiles) ==
    IF Len(tiles) = 0 THEN <<>>
    ELSE IF Len(tiles) >= 2 /\ tiles[1] = tiles[2]
         THEN <<2 * tiles[1]>> \o Collapse(SubSeq(tiles, 3, Len(tiles)))
         ELSE <<tiles[1]>> \o Collapse(Tail(tiles))

\* post is pre with some disjoint pairs of equal neighbours replaced by
\* their double: no value of post comes from more than two tiles of pre
RECURSIVE MergedAtMostOnce(_, _)
MergedAtMostOnce(pre, post) ==
    IF Len(pre) = 0 THEN Len(post) = 0
    ELSE IF Len(post) = 0 THEN FALSE
    ELSE \/ post[1] = pre[1] /\ MergedAtMostOnce(Tail(pre), Tail(post))
         \/ /\ Len(pre) >= 2
            /\ pre[1] = pre[2]
            /\ post[1] = 2 * pre[1]
            /\ MergedAtMostOnce(Tail(Tail(pre)), Tail(post))

UnitMove == call.op = "move" /\ call.direction \in UnitDirections

Lines == 0..(BoardWidth - 1)

-----------------------------------------------------------------------------
(* The claims *)

\* C1: a unit-direction move on a board where no tile can slide and no two
\* equal tiles are adjacent along the direction leaves every cell as it was
\* and spawns nothing.
C1_NoOpMoveLeavesGrid ==
    (UnitMove /\ ~ CanSlide(call.pre, call.direction)
              /\ ~ HasEqualPair(call.pre, call.direction))
        => (call.returned /\ board.board = call.pre /\ call.mid = call.pre)

\* C1 witness: a no-op move has been made on a board that holds tiles
C1_Witness ==
    /\ UnitMove
    /\ ~ CanSlide(call.pre, call.direction)
    /\ ~ HasEqualPair(call.pre, call.direction)
    /\ TileCount(call.pre) >= 2
    /\ TileCount(call.pre) < BoardWidth * BoardHeight

\* C2: a unit-direction move that slides a tile or merges a pair spawns
\* exactly one tile, on a cell that was empty after the merges, and the tile
\* count becomes the count before, minus the merges, plus one.
C2_ChangedMoveSpawnsOne ==
    (UnitMove /\ (call.slid \/ call.merges > 0))
        => /\ call.returned
           /\ OneTileAdded(call.mid, board.board)
           /\ TileCount(board.board) = TileCount(call.pre) - call.merges + 1

\* C2 witness: a move on a full board merged a pair and the spawn took a cell
\* the merge freed
C2_Witness ==
    /\ UnitMove
    /\ TileCount(call.pre) = BoardWidth * BoardHeight
    /\ call.merges > 0
    /\ TileCount(board.board) = TileCount(call.pre) - call.merges + 1

\* C3: after the merge pass of a unit-direction move every tile of a line is
\* one tile of the line before, or the double of two equal neighbours of the
\* compacted line: no tile is merged twice.  [2,2,2,2] gives [4,4,None,None].
C3_SingleMergePerTile ==
    UnitMove =>
        \A k \in Lines :
            LET pre == LineOf(call.pre, call.direction, k)
                mid == LineOf(call.mid, call.direction, k)
            IN  /\ MergedAtMostOnce(TilesOf(pre), TilesOf(mid))
                /\ pre = <<2, 2, 2, 2>> => mid = <<4, 4, None, None>>

\* C3 witness: a line [2,2,2,2] has been moved
C3_Witness ==
    /\ UnitMove
    /\ \E k \in Lines : LineOf(call.pre, call.direction, k) = <<2, 2, 2, 2>>

\* C4: the grid a unit-direction move builds before its spawn is, line by
\* line, the 2048 collapse of the line's tiles packed against the edge the
\* tiles move toward.
C4_MoveIsReferenceCollapse ==
    UnitMove =>
        \A k \in Lines :
            LineOf(call.mid, call.direction, k) =
                Packed(Collapse(TilesOf(LineOf(call.pre, call.direction, k))), BoardWidth)

\* C4 witness: row y = 0 was [2,2,4,None] and move(left) made it [4,4,None,None]
C4_Witness ==
    /\ UnitMove
    /\ call.direction = <<-1, 0>>
    /\ LineOf(call.pre, call.direction, 0) = <<2, 2, 4, None>>
    /\ LineOf(call.mid, call.direction, 0) = <<4, 4, None, None>>

\* C5: a unit-direction move adds at most one tile and never exceeds
\* width x height tiles; compaction and merging keep the sum of the values,
\* and the move adds the spawned 2 or 4 to the sum exactly when it changed
\* the grid.
C5_Conservation ==
    UnitMove =>
        LET before == TileSum(call.pre)
            merged == TileSum(call.mid)
            after == TileSum(board.board)
            tiles == TileCount(board.board)
        IN  /\ tiles <= TileCount(call.pre) + 1
            /\ tiles <= BoardWidth * BoardHeight
            /\ merged = before
            /\ after >= before
            /\ call.mid # call.pre => after - before \in {2, 4}
            /\ call.mid = call.pre => after = before

\* C5 witness: a move merged two pairs and spawned a tile
C5_Witness ==
    /\ UnitMove
    /\ call.merges >= 2
    /\ TileSum(board.board) > TileSum(call.pre)

\* C6 (as claimed): spawn() returns true when it places a tile and false
\* exactly when the grid has no empty cell.
C6_SpawnReturnsPlacement ==
    call.op = "spawn" =>
        /\ board.board # call.pre => call.ret = "True"
        /\ call.ret = "False" <=> TileCount(call.pre) = BoardWidth * BoardHeight

\* C7: spawn() on a grid with an empty cell puts one tile of value 2 or 4 on
\* a cell that was empty and changes no other cell; on a full grid it
\* changes nothing.
C7_SpawnOnlyOnEmptyCell ==
    call.op = "spawn" =>
        IF TileCount(call.pre) < BoardWidth * BoardHeight
        THEN OneTileAdded(call.pre, board.board)
        ELSE board.board = call.pre

\* C7 witness: spawn() filled the last empty cell of a grid
C7_Witness ==
    /\ call.op = "spawn"
    /\ TileCount(call.pre) = BoardWidth * BoardHeight - 1
    /\ TileCount(board.board) = BoardWidth * BoardHeight

\* two cells next to each other in a row or in a column
Adjacent(p, q) ==
    \/ p[1] = q[1] /\ (p[2] - q[2] = 1 \/ q[2] - p[2] = 1)
    \/ p[2] = q[2] /\ (p[1] - q[1] = 1 \/ q[1] - p[1] = 1)

\* full, and no two adjacent cells hold the same value
Stuck(grid) ==
    /\ Occupied(grid) = Cells
    /\ \A p \in Cells : \A q \in Cells : Adjacent(p, q) => At(grid, p) # At(grid, q)

\* C8: check_game_over() on the board being played returns true exactly when
\* every cell is occupied and no two orthogonally adjacent cells are equal.
C8_GameOverIffStuck ==
    call.op = "check_game_over" =>
        (call.ret = "True" <=> Stuck(call.pre))

\* C8 witness: check_game_over() returned true
C8_Witness ==
    /\ call.op = "check_game_over"
    /\ call.ret = "True"
    /\ Stuck(board.board)

C10_OtherDirectionIsNoOp ==
    (call.op = "move" /\ call.direction \notin UnitDirections)
        => (call.returned /\ board.board = call.pre)

\* the positions Board._is_valid accepts
ValidPositions(self) == (0..(self.width - 1)) \X (0..(self.height - 1))

\* C11 (as claimed): on a Board built with positive width and height every
\* position (x, y), 0 <= x < width, 0 <= y < height, is a cell grid[x][y], and
\* no call fails with an out-of-range access.
C11_EveryPositionAddressable ==
    (pc # "new" /\ board.width > 0 /\ board.height > 0)
        => /\ \A p \in ValidPositions(board) : Addressable(board, p)
           /\ pc # "IndexError"

\* C12 (as claimed): no Board with a non-positive width or height exists:
\* the constructor refuses it.
C12_NonPositiveRejected ==
    pc # "new" => (board.width > 0 /\ board.height > 0)

\* a step that is, or ends, a call of check_win or check_game_over
C13_Step ==
    call'.op \in Queries =>
        /\ board' = board
        /\ (call.op = call'.op /\ call.pre = board.board) => call'.ret = call.ret

C14_GameOverOfSelfOnly ==
    call.op = "other.check_game_over" =>
        (call.ret = "True" <=> Stuck(call.pre))

\* the start cells of the merge pass of a move of the board
StartCells(direction) ==
    LET starts == _find_starts(board, direction)
    IN  {starts[k] : k \in DOMAIN starts}

\* the cells with no cell next to them in the direction
EdgeToward(direction) == {p \in Cells : ~ OnBoard(Toward(p, direction))}

Opposite(direction) == <<0 - direction[1], 0 - direction[2]>>

\* the cell i steps from p in the direction
Steps(p, direction, i) == <<p[1] + i * direction[1], p[2] + i * direction[2]>>

\* C15 (as claimed): the start cells of the merge pass are the cells of the
\* edge away from the move direction: for left, the rightmost column.
C15_StartsAtFarEdge ==
    UnitMove => StartCells(call.direction) = EdgeToward(Opposite(call.direction))

\* C15 (amended): the start cells of the merge pass are the cells of the edge
\* the tiles move toward (for left, the leftmost column), one per line, and
\* the walk from a start toward the inverse of the move direction stays on
\* the board up to the other edge, so that it compares each cell of the line
\* with the next: in a line of three equal tiles the two nearest the edge
\* the tiles move toward are the ones merged.
C15_StartsAtNearEdge ==
    UnitMove =>
        /\ StartCells(call.direction) = EdgeToward(call.direction)
        /\ call.direction = <<-1, 0>> =>
              StartCells(call.direction) = {p \in Cells : p[1] = 0}
        /\ \A p \in StartCells(call.direction) : \A i \in 0..(BoardWidth - 1) :
              OnBoard(Steps(p, Opposite(call.direction), i))
        /\ \A k \in Lines :
              LineOf(call.pre, call.direction, k) = <<2, 2, 2, None>>
                  => LineOf(call.mid, call.direction, k) = <<4, 2, None, None>>

\* C15 witness: move(left) on a row [2,2,2,None] merged the two tiles at the
\* left edge
C15_Witness ==
    /\ UnitMove
    /\ call.direction = <<-1, 0>>
    /\ \E k \in Lines :
          /\ LineOf(call.pre, call.direction, k) = <<2, 2, 2, None>>
          /\ LineOf(call.mid, call.direction, k) = <<4, 2, None, None>>

RECURSIVE IsPowerOfTwo(_)
IsPowerOfTwo(v) ==
    v >= 2 /\ (v = 2 \/ (v % 2 = 0 /\ IsPowerOfTwo(v \div 2)))

\* C16: every tile on the board is a power of two, at least 2; a spawn adds
\* a 2 or a 4.
C16_TilesArePowersOfTwo ==
    /\ \A p \in Occupied(board.board) : IsPowerOfTwo(At(board.board, p))
    /\ call.op = "spawn" =>
          \A p \in Differ(call.pre, board.board) : At(board.board, p) \in {2, 4}

\* C16 witness: a move of the game merged tiles into a 2048 tile
C16_Witness ==
    /\ UnitMove
    /\ call.merges > 0
    /\ TileSum(call.mid) = TileSum(call.pre)
    /\ \E p \in Cells : At(call.pre, p) = 1024 /\ At(board.board, p) = 2048

\* a tile 2048 is on the board
HasWinTile == \E p \in Cells : At(board.board, p) = 2048

\* a board as two spawns leave it: two tiles, each 2 or 4
NewGame(grid) ==
    /\ TileCount(grid) = 2
    /\ \A p \in Occupied(grid) : At(grid, p) \in {2, 4}

C17_Step ==
    /\ (pc # "win_screen" /\ pc' = "win_screen") => ~ user_continued
    /\ user_continued => user_continued'
    /\ (pc = "win_screen" /\ pc' # "win_screen") =>
          \/ user_continued' /\ board' = board
          \/ ~ running' /\ board' = board
          \/ NewGame(board'.board) /\ call'.op = "spawn"

\* C17: the win screen opens only while the player has not continued; Q
\* sets user_continued for good, so it never opens again on that board; the
\* screen is left by Q, by E (the loop stops) or by W, which plays on a new
\* Board.
C17_WinScreenOncePerBoard == [][C17_Step]_vars

\* C17 witness: a frame after the player continued: check_win() is true and
\* the win screen was not opened
C17_Witness ==
    /\ user_continued
    /\ HasWinTile
    /\ pc = "over_check"
    /\ call.op = "check_win"
    /\ call.ret = "True"
    /\ call.pre = board.board

C18_Step ==
    /\ (pc = "over_check" /\ Stuck(board.board)) =>
          (~ running' /\ pc' = "done" /\ board' = board)
    /\ (pc = "over_check" /\ ~ Stuck(board.board)) => running' = running
    /\ (pc = "over_check" /\ running') => pc' = "events"
    /\ pc # "done"

\* C18: at the end-of-frame check a stuck board stops the loop; the check
\* stops it for no other board; and once the loop has stopped no step follows,
\* so no move and no spawn.
C18_GameOverIsTerminal == [][C18_Step]_vars

\* C18 witness: the loop has stopped on a stuck board that a move produced
C18_Witness ==
    /\ pc = "done"
    /\ ~ running
    /\ Stuck(board.board)
    /\ call.op = "check_game_over"
    /\ call.ret = "True"

\* C19: a new board gets two spawns before anything else: none placed at
\* line 233, one at line 234, and after the second spawn, at program start
\* and after W, exactly two tiles on distinct cells, each 2 or 4, and fourteen
\* empty cells.
C19_NewGameHasTwoTiles ==
    /\ pc = "spawn1" => TileCount(board.board) = 0
    /\ pc = "spawn2" => (TileCount(board.board) = 1 /\ call.op = "spawn")
    /\ (call.op = "spawn" /\ pc \notin {"spawn1", "spawn2"}) =>
          /\ NewGame(board.board)
          /\ Cardinality(Cells \ Occupied(board.board)) = 14
          /\ TileCount(call.pre) = 1

\* C19 witness: the game was restarted with W from the win screen
C19_Witness ==
    /\ call.op = "spawn"
    /\ pc = "over_check"
    /\ NewGame(board.board)

\* no unit-direction move changes the board.  A first compaction that slides
\* a tile settles the question before the rest of move() is computed.
NoMoveChanges ==
    \A direction \in UnitDirections :
        /\ ~ _compact(board, direction).something_changed
        /\ \A r \in move(board, direction) : r.self = board /\ ~ r.changed

\* C20: at every end-of-frame check of a game, check_game_over() returns
\* true exactly when none of up, down, left, right changes the grid.
C20_GameOverIffNoMove ==
    call.op = "check_game_over" =>
        (call.ret = "True" <=> NoMoveChanges)

\* C20 witness: the check returned true on a full board that a move and its
\* spawn produced, and no direction changes it
C20_Witness ==
    /\ call.op = "check_game_over"
    /\ call.ret = "True"
    /\ budget < MaxMoves
    /\ TileCount(board.board) = BoardWidth * BoardHeight
    /\ NoMoveChanges

====
